---- MODULE Spec2Model ----
(***************************************************************************)
(* A model of the PromptEnhancer web client: the segment formatter of      *)
(* PromptEnhancer.tsx, the three chat-completion call sites (PromptForm,   *)
(* PromptEnhancer, App) and the two collections kept in localStorage.      *)
(*                                                                         *)
(* Strings that the program inspects character by character (the text     *)
(* given to formatOutput) are sequences of one-character strings.  Other   *)
(* strings are TLA+ strings.                                               *)
(***************************************************************************)
EXTENDS Integers, Sequences, FiniteSets, TLC

VARIABLES
    \* formatOutput
    text,             \* the activeResult handed to the formatter
    segments,         \* the rendered blocks, in order
    fmtDone,          \* TRUE once the formatter has rendered text
    \* the page
    mounted,          \* "app": App with its PromptEnhancer; "form": a PromptForm
    phase,            \* the mounted component's life cycle, see the mount actions
    \* App
    apiEndpoint, loading, result,
    \* PromptEnhancer
    basePrompt, enhancedPrompt, selectedCategory, filterCategory,
    savedPrompts, showSaved, showResult,
    \* PromptForm, and the two callbacks its host passes in
    systemPrompt, userPrompt, temperature, model, maxTokens, stream,
    presets, newPresetName, activePreset,
    pending,          \* the setPresets call queued by the mount effect
    formResult,       \* the last value given to onResult
    formLoading,      \* the last value given to setLoading
    \* the browser
    storage,          \* localStorage, by key
    inflight,         \* the fetch calls whose response has not arrived
    sent,             \* the requests the last step handed to fetch
    nextId,           \* how many ids crypto.randomUUID has produced
    clock,            \* the time new Date() reads
    session,          \* how many times the page has been opened
    quotaExceeded     \* TRUE while localStorage.setItem throws

fmtVars == <<text, segments, fmtDone>>

appVars == <<apiEndpoint, loading, result>>

enhancerVars ==
    <<basePrompt, enhancedPrompt, selectedCategory, filterCategory,
      savedPrompts, showSaved, showResult>>

fieldVars == <<systemPrompt, userPrompt, temperature, model, maxTokens, stream>>

presetVars == <<presets, newPresetName, activePreset>>

hostVars == <<formResult, formLoading>>

netVars == <<inflight, sent>>

envVars == <<storage, nextId, clock, session, quotaExceeded>>

vars ==
    <<fmtVars, mounted, phase, appVars, enhancerVars, fieldVars, presetVars,
      pending, hostVars, netVars, envVars>>

----------------------------------------------------------------------------
(* Characters *)

\* The backquote character; a TLA+ string cannot hold one, "^" stands for it.
BT == "^"
NL == "\n"
SP == " "
TAB == "\t"

\* The characters \w of the split pattern matches (representatives of
\* [A-Za-z0-9_]).
WordChars == {"a", "b", "c", "d", "e", "i", "l", "o", "t", "x", "0", "_"}

\* The characters String.prototype.trim removes.
WhiteSpace == {SP, NL, TAB}

IsBlank(s) == \A i \in 1..Len(s) : s[i] \in WhiteSpace

\* String.prototype.trim
RECURSIVE TrimStart(_)
TrimStart(s) ==
    IF s = <<>> THEN <<>>
    ELSE IF Head(s) \in WhiteSpace THEN TrimStart(Tail(s)) ELSE s

RECURSIVE TrimEnd(_)
TrimEnd(s) ==
    IF s = <<>> THEN <<>>
    ELSE IF s[Len(s)] \in WhiteSpace THEN TrimEnd(SubSeq(s, 1, Len(s) - 1)) ELSE s

Trim(s) == TrimEnd(TrimStart(s))

\* String.prototype.startsWith("```")
StartsWithFence(s) == Len(s) >= 3 /\ s[1] = BT /\ s[2] = BT /\ s[3] = BT

----------------------------------------------------------------------------
(* formatOutput: text.split(/```(?:[\w]*\n)?/) *)

\* The number of consecutive \w characters of t from position j on.
RECURSIVE WordRun(_, _)
WordRun(t, j) ==
    IF j <= Len(t) /\ t[j] \in WordChars THEN 1 + WordRun(t, j + 1) ELSE 0

\* The length of the optional group (?:[\w]*\n)? tried at position j: the
\* greedy run of \w must be followed by a newline, else the group is empty.
TagLen(t, j) ==
    LET k == WordRun(t, j)
    IN  IF j + k <= Len(t) /\ t[j + k] = NL THEN k + 1 ELSE 0

\* The length of the match of the pattern at position i, 0 when none.
FenceLen(t, i) ==
    IF i + 2 <= Len(t) /\ t[i] = BT /\ t[i + 1] = BT /\ t[i + 2] = BT
    THEN 3 + TagLen(t, i + 3)
    ELSE 0

\* String.prototype.split with the pattern: the pieces between the matches,
\* scanning left to right; cur is the piece being collected.
RECURSIVE SplitFrom(_, _, _)
SplitFrom(t, i, cur) ==
    IF i > Len(t) THEN <<cur>>
    ELSE IF FenceLen(t, i) > 0
         THEN <<cur>> \o SplitFrom(t, i + FenceLen(t, i), <<>>)
         ELSE SplitFrom(t, i + 1, Append(cur, t[i]))

SplitFences(t) == SplitFrom(t, 1, <<>>)

\* part.split('\n')
RECURSIVE SplitLinesFrom(_, _, _)
SplitLinesFrom(t, i, cur) ==
    IF i > Len(t) THEN <<cur>>
    ELSE IF t[i] = NL
         THEN <<cur>> \o SplitLinesFrom(t, i + 1, <<>>)
         ELSE SplitLinesFrom(t, i + 1, Append(cur, t[i]))

SplitLines(t) == SplitLinesFrom(t, 1, <<>>)

\* Array.prototype.filter on a sequence, by a set of kept indices.
RECURSIVE KeepFrom(_, _, _)
KeepFrom(s, keep, i) ==
    IF i > Len(s) THEN <<>>
    ELSE (IF i \in keep THEN <<s[i]>> ELSE <<>>) \o KeepFrom(s, keep, i + 1)

\* const isCodeBlock = text.trim().startsWith("```")
IsCodeBlockUntrimmed(t) == StartsWithFence(t)

IsCodeBlock(t) == StartsWithFence(Trim(t))

\* isCode, for the part at the 0-based index
IsCodeFlipped(isCodeBlock, index) ==
    (isCodeBlock /\ index % 2 = 0) \/ (~isCodeBlock /\ index % 2 = 1)

IsCode(isCodeBlock, index) ==
    (isCodeBlock /\ index % 2 = 1) \/ (~isCodeBlock /\ index % 2 = 0)

\* "Skip empty parts": a part is rendered unless it trims to the empty string.
PartKeptAlways(part) == TRUE

PartKept(part) == Trim(part) # <<>>

\* The paragraphs of a text part that are rendered.
ParagraphKept(paragraph) == Trim(paragraph) # <<>>

ParagraphsFirstOnly(part) ==
    LET ps == SplitLines(part)
    IN  KeepFrom(ps, {i \in 1..1 : ParagraphKept(ps[i])}, 1)

Paragraphs(part) ==
    LET ps == SplitLines(part)
    IN  KeepFrom(ps, {i \in 1..Len(ps) : ParagraphKept(ps[i])}, 1)

\* The block rendered for one part: a code block holds part.trim(), a text
\* block holds the kept paragraphs, untrimmed.
RenderPart(part, index, isCodeBlock) ==
    IF IsCode(isCodeBlock, index)
    THEN [kind |-> "code", key |-> index, lines |-> <<Trim(part)>>]
    ELSE [kind |-> "text", key |-> index, lines |-> Paragraphs(part)]

\* formatOutput(text): null (nothing rendered) for the empty text, else the
\* blocks of the kept parts in order.
formatOutput(t) ==
    IF t = <<>> THEN <<>>
    ELSE LET parts == SplitFences(t)
             isCodeBlock == IsCodeBlock(t)
             blocks == [i \in 1..Len(parts) |-> RenderPart(parts[i], i - 1, isCodeBlock)]
         IN  KeepFrom(blocks, {i \in 1..Len(parts) : PartKept(parts[i])}, 1)

----------------------------------------------------------------------------
(* JavaScript values *)

\* A value read out of a parsed JSON body, or held by a piece of state that
\* receives one: its typeof-like tag, its text when it is a string or a
\* number, and its properties when it is an object or an array (an array's
\* elements are the properties "0", "1", ...).
NoKids == [k \in {} |-> ""]

VUndefined == [tag |-> "undefined", s |-> "", kids |-> NoKids]

VNull == [tag |-> "null", s |-> "", kids |-> NoKids]

VStr(s) == [tag |-> "string", s |-> s, kids |-> NoKids]

VNum(s) == [tag |-> "number", s |-> s, kids |-> NoKids]

VObj(kids) == [tag |-> "object", s |-> "", kids |-> kids]

VArr1(v) == [tag |-> "array", s |-> "", kids |-> [k \in {"0"} |-> v]]

\* A TypeError travelling up the expression that raised it.
VThrow(message) == [tag |-> "throw", s |-> message, kids |-> NoKids]

\* v[k] / v.k: a TypeError on undefined and null, undefined for a property
\* the value does not have.
Access(v, k) ==
    IF v.tag = "throw" THEN v
    ELSE IF v.tag \in {"undefined", "null"}
         THEN VThrow("Cannot read properties of " \o v.tag \o " (reading '" \o k \o "')")
         ELSE IF k \in DOMAIN v.kids THEN v.kids[k] ELSE VUndefined

\* !v
Falsy(v) ==
    \/ v.tag \in {"undefined", "null"}
    \/ v.tag = "string" /\ v.s = ""
    \/ v.tag = "number" /\ v.s = "0"

\* A number held in component state: a number, NaN, or the null that a
\* stored NaN comes back as.  Temperatures are counted in tenths.
JNum(n) == [t |-> "number", v |-> n]

JNaN == [t |-> "NaN", v |-> 0]

JNull == [t |-> "null", v |-> 0]

\* JSON.stringify of a number: NaN has no JSON form and is written as null.
StringifyNumber(x) == IF x.t = "NaN" THEN JNull ELSE x

\* parseInt(e.target.value) for what a number input can hold.
ParseInt(input) ==
    CASE input = "-1" -> JNum(-1)
      [] input = "256" -> JNum(256)
      [] OTHER -> JNaN

\* String.prototype.trim on the prompts and names of the model: the blank
\* ones trim to the empty string, the others carry no outer white space.
BlankStrings == {"", " "}

StrTrimNothing(s) == s

StrTrim(s) == IF s \in BlankStrings THEN "" ELSE s

----------------------------------------------------------------------------
(* The chat-completion service *)

\* What the service can answer: the fetch is rejected, the body is not JSON,
\* or the body is JSON of some shape.
Bodies ==
    { VNull,
      VObj(NoKids),
      VObj([choices |-> VArr1(VObj([message |-> VObj(NoKids)]))]),
      VObj([choices |-> VArr1(VObj([message |-> VObj([content |-> VNum("42")])]))]),
      VObj([choices |-> VArr1(VObj([message |-> VObj([content |-> VStr("")])]))]),
      VObj([choices |-> VArr1(VObj([message |-> VObj([content |-> VStr("out1")])]))]),
      VObj([choices |-> VArr1(VObj([message |-> VObj([content |-> VStr("out2")])]))]) }

Responses ==
    {[net |-> "fail", json |-> FALSE, data |-> VUndefined],
     [net |-> "ok", json |-> FALSE, data |-> VUndefined]}
        \cup {[net |-> "ok", json |-> TRUE, data |-> d] : d \in Bodies}

\* data.choices[0].message.content
ExtractContent(data) ==
    Access(Access(Access(Access(data, "choices"), "0"), "message"), "content")

\* The try block shared by the three call sites: await fetch, await
\* res.json(), read the content.  Either an error is thrown, with its
\* message, or the content expression has a value.
TryRequest(resp) ==
    IF resp.net = "fail"
    THEN [thrown |-> TRUE, message |-> "Failed to fetch", value |-> VUndefined]
    ELSE IF ~resp.json
         THEN [thrown |-> TRUE, message |-> "Unexpected token < in JSON at position 0",
               value |-> VUndefined]
         ELSE LET v == ExtractContent(resp.data)
              IN  IF v.tag = "throw"
                  THEN [thrown |-> TRUE, message |-> v.s, value |-> VUndefined]
                  ELSE [thrown |-> FALSE, message |-> "", value |-> v]

\* The value each call site hands to its display state.
FormDeliveredOtherPrefix(out) ==
    IF out.thrown THEN VStr("Request failed: " \o out.message) ELSE out.value

FormDelivered(out) ==
    IF out.thrown THEN VStr("Error: " \o out.message) ELSE out.value

EnhanceDelivered(out) ==
    IF out.thrown THEN VStr("Error enhancing prompt: " \o out.message) ELSE out.value

GenerateDeliveredNothing(out) == VStr("")

GenerateDelivered(out) ==
    IF out.thrown THEN VStr("Error: " \o out.message) ELSE out.value

Remove(seq, i) == SubSeq(seq, 1, i - 1) \o SubSeq(seq, i + 1, Len(seq))

----------------------------------------------------------------------------
(* Constants and initial state of the components *)

MODEL_NAME == "mistral-nemo-instruct-2407"

ENHANCEMENT_SYSTEM_PROMPT == "You are an expert prompt engineer. ..."

PROMPT_CATEGORIES ==
    {"General", "Creative Writing", "Business", "Web Development", "Marketing",
     "Academic", "Coding", "Data Analysis"}

\* The categories the model's user picks.
Categories == {"General", "Coding"}

DEFAULT_PRESETS ==
    << [id |-> "1", name |-> "Rhyming Assistant", model |-> MODEL_NAME,
        systemPrompt |-> "Always answer in rhymes. Today is Thursday",
        temperature |-> JNum(7), maxTokens |-> JNum(-1)],
       [id |-> "2", name |-> "Helpful Assistant", model |-> MODEL_NAME,
        systemPrompt |-> "You are a helpful, harmless, and honest AI assistant.",
        temperature |-> JNum(7), maxTokens |-> JNum(-1)],
       [id |-> "3", name |-> "Precise Analyst", model |-> MODEL_NAME,
        systemPrompt |-> "You are a precise, analytical assistant ...",
        temperature |-> JNum(3), maxTokens |-> JNum(-1)] >>

\* useState initial values of App
AppInit ==
    /\ apiEndpoint = "http://localhost:1234"
    /\ loading = FALSE
    /\ result = VStr("")

\* useState initial values of PromptEnhancer
EnhancerInit ==
    /\ basePrompt = ""
    /\ enhancedPrompt = VStr("")
    /\ selectedCategory = "General"
    /\ filterCategory = "All"
    /\ savedPrompts = <<>>
    /\ showSaved = FALSE
    /\ showResult = FALSE

\* useState initial values of PromptForm's request fields
FieldsInit ==
    /\ systemPrompt = "Always answer in rhymes. Today is Thursday"
    /\ userPrompt = "What day is it today?"
    /\ temperature = JNum(7)
    /\ model = MODEL_NAME
    /\ maxTokens = JNum(-1)
    /\ stream = FALSE

\* useState initial values of PromptForm's preset state
PresetsInit ==
    /\ presets = DEFAULT_PRESETS
    /\ newPresetName = ""
    /\ activePreset = "null"

HostInit ==
    /\ formResult = VStr("")
    /\ formLoading = FALSE

NetInit ==
    /\ inflight = <<>>
    /\ sent = <<>>

\* Every component as constructed, nothing stored, nothing sent.
ComponentsAtRest ==
    /\ mounted = "app"
    /\ phase = "ready"
    /\ pending = [queued |-> FALSE, value |-> <<>>]
    /\ AppInit /\ EnhancerInit /\ FieldsInit /\ PresetsInit /\ HostInit /\ NetInit
    /\ storage = [promptPresets |-> [kind |-> "missing", items |-> <<>>],
                  enhancedPrompts |-> [kind |-> "missing", items |-> <<>>]]
    /\ nextId = 0
    /\ clock = 0
    /\ session = 1
    /\ quotaExceeded = FALSE

----------------------------------------------------------------------------
(* Requests *)

\* How many responses can be awaited at once.
MaxInFlight == 2

CHAT_PATH == "/v1/chat/completions"

Messages(system, user) ==
    <<[role |-> "system", content |-> system], [role |-> "user", content |-> user]>>

\* The body PromptForm.handleSubmit stringifies.
FormBody ==
    [model |-> model,
     messages |-> Messages(VStr(systemPrompt), VStr(userPrompt)),
     temperature |-> StringifyNumber(temperature),
     max_tokens |-> StringifyNumber(maxTokens),
     stream |-> stream]

\* The body PromptEnhancer.enhancePrompt stringifies.
EnhanceBodySwapped ==
    [model |-> MODEL_NAME,
     messages |-> Messages(VStr(basePrompt), VStr(ENHANCEMENT_SYSTEM_PROMPT)),
     temperature |-> JNum(7),
     max_tokens |-> JNum(-1)]

EnhanceBody ==
    [model |-> MODEL_NAME,
     messages |-> Messages(VStr(ENHANCEMENT_SYSTEM_PROMPT), VStr(basePrompt)),
     temperature |-> JNum(7),
     max_tokens |-> JNum(-1)]

\* The body App.handleEnhancedPrompt stringifies.
GenerateBody(system, user) ==
    [model |-> MODEL_NAME,
     messages |-> Messages(system, user),
     temperature |-> JNum(7),
     max_tokens |-> JNum(-1)]

\* fetch(`${apiEndpoint}/v1/chat/completions`, {method: 'POST', ...})
Fetch(site, user, body) ==
    /\ Len(inflight) < MaxInFlight
    /\ sent' = <<[site |-> site, method |-> "POST",
                  url |-> apiEndpoint \o CHAT_PATH, body |-> body]>>
    /\ inflight' = Append(inflight, [site |-> site, user |-> user])

----------------------------------------------------------------------------
(* PromptForm: the request fields and the direct submission *)

UserPrompts == {"", " ", "What day is it today?"}

MaxTokensInputs == {"", "-1", "256"}

\* onChange of the user prompt textarea; like every onChange below it fires
\* when the control's value has changed.
SetUserPrompt(v) ==
    /\ mounted = "form"
    /\ phase = "ready"
    /\ v # userPrompt
    /\ userPrompt' = v
    /\ sent' = <<>>
    /\ UNCHANGED <<pending, fmtVars, mounted, phase, appVars, enhancerVars, systemPrompt,
                   temperature, model, maxTokens, stream, presetVars, hostVars,
                   inflight, envVars>>

\* onChange of the max tokens input: setMaxTokens(parseInt(e.target.value))
SetMaxTokens(input) ==
    /\ mounted = "form"
    /\ phase = "ready"
    /\ ParseInt(input) # maxTokens
    /\ maxTokens' = ParseInt(input)
    /\ sent' = <<>>
    /\ UNCHANGED <<pending, fmtVars, mounted, phase, appVars, enhancerVars, systemPrompt,
                   userPrompt, temperature, model, stream, presetVars, hostVars,
                   inflight, envVars>>

\* onChange of the stream checkbox
SetStream(b) ==
    /\ mounted = "form"
    /\ phase = "ready"
    /\ b # stream
    /\ stream' = b
    /\ sent' = <<>>
    /\ UNCHANGED <<pending, fmtVars, mounted, phase, appVars, enhancerVars, systemPrompt,
                   userPrompt, temperature, model, maxTokens, presetVars, hostVars,
                   inflight, envVars>>

\* loadPreset(preset), for the preset at position k of the list
loadPreset(k) ==
    /\ mounted = "form"
    /\ phase = "ready"
    /\ k \in 1..Len(presets)
    /\ systemPrompt' = presets[k].systemPrompt
    /\ model' = presets[k].model
    /\ temperature' = presets[k].temperature
    /\ maxTokens' = presets[k].maxTokens
    /\ activePreset' = presets[k].id
    /\ sent' = <<>>
    /\ UNCHANGED <<pending, fmtVars, mounted, phase, appVars, enhancerVars, userPrompt,
                   stream, presets, newPresetName, hostVars, inflight, envVars>>

\* handleSubmit up to its first await.  The submit button is disabled while
\* userPrompt.trim() === ''.
handleSubmit ==
    /\ mounted = "form"
    /\ phase = "ready"
    /\ StrTrim(userPrompt) # ""
    /\ formLoading' = TRUE
    /\ Fetch("form", VStr(userPrompt), FormBody)
    /\ UNCHANGED <<pending, fmtVars, mounted, phase, appVars, enhancerVars, fieldVars,
                   presetVars, formResult, envVars>>

\* handleSubmit from the response on: try, catch, finally
FormResponse(i, resp) ==
    /\ i \in 1..Len(inflight)
    /\ inflight[i].site = "form"
    /\ formResult' = FormDelivered(TryRequest(resp))
    /\ formLoading' = FALSE
    /\ inflight' = Remove(inflight, i)
    /\ sent' = <<>>
    /\ UNCHANGED <<pending, fmtVars, mounted, phase, appVars, enhancerVars, fieldVars,
                   presetVars, envVars>>

----------------------------------------------------------------------------
(* PromptEnhancer and App: the enhancement and the generation request *)

BasePrompts == {"", " ", "p1"}

ApiEndpoints == {"http://localhost:1234", "http://10.0.0.2:8080"}

\* const currentlyLoading = isLoading || isEnhancing.  App always passes
\* onSetLoadingState, so isEnhancing is never set and stays false.
currentlyLoading == loading \/ FALSE

\* The library list is rendered, with the buttons of its records.
LibraryShown == showSaved /\ Len(savedPrompts) > 0 /\ ~showResult

\* The record passes the list's category filter.
PassesFilter(p) == filterCategory = "All" \/ p.category = filterCategory

\* onChange of the basic prompt textarea
SetBasePrompt(v) ==
    /\ mounted = "app"
    /\ phase = "ready"
    /\ v # basePrompt
    /\ basePrompt' = v
    /\ sent' = <<>>
    /\ UNCHANGED <<pending, fmtVars, mounted, phase, appVars, enhancedPrompt, selectedCategory,
                   filterCategory, savedPrompts, showSaved, showResult, fieldVars,
                   presetVars, hostVars, inflight, envVars>>

\* onChange of the endpoint field in App's settings panel
SetApiEndpoint(v) ==
    /\ mounted = "app"
    /\ phase = "ready"
    /\ v # apiEndpoint
    /\ apiEndpoint' = v
    /\ sent' = <<>>
    /\ UNCHANGED <<pending, fmtVars, mounted, phase, loading, result, enhancerVars, fieldVars,
                   presetVars, hostVars, inflight, envVars>>

\* onClick of "View Library" / "Hide Library"
ToggleShowSaved ==
    /\ mounted = "app"
    /\ phase = "ready"
    /\ showSaved' = ~showSaved
    /\ sent' = <<>>
    /\ UNCHANGED <<pending, fmtVars, mounted, phase, appVars, basePrompt, enhancedPrompt,
                   selectedCategory, filterCategory, savedPrompts, showResult,
                   fieldVars, presetVars, hostVars, inflight, envVars>>

\* onClick of the result panel's close button, rendered when
\* showResult && activeResult
HideResult ==
    /\ mounted = "app"
    /\ phase = "ready"
    /\ showResult /\ ~Falsy(result)
    /\ showResult' = FALSE
    /\ sent' = <<>>
    /\ UNCHANGED <<pending, fmtVars, mounted, phase, appVars, basePrompt, enhancedPrompt,
                   selectedCategory, filterCategory, savedPrompts, showSaved,
                   fieldVars, presetVars, hostVars, inflight, envVars>>

\* enhancePrompt up to its first await.  The button is disabled while
\* !basePrompt.trim() || currentlyLoading, and the function returns at once
\* when !basePrompt.trim().
enhancePrompt ==
    /\ mounted = "app"
    /\ phase = "ready"
    /\ ~(StrTrim(basePrompt) = "" \/ currentlyLoading)
    /\ StrTrim(basePrompt) # ""
    /\ loading' = TRUE
    /\ enhancedPrompt' = VStr("")
    /\ Fetch("enhance", VStr(basePrompt), EnhanceBody)
    /\ UNCHANGED <<pending, fmtVars, mounted, phase, apiEndpoint, result, basePrompt,
                   selectedCategory, filterCategory, savedPrompts, showSaved,
                   showResult, fieldVars, presetVars, hostVars, envVars>>

\* enhancePrompt from the response on: try, catch, finally
EnhanceResponseNoFinally(i, resp) ==
    /\ i \in 1..Len(inflight)
    /\ inflight[i].site = "enhance"
    /\ enhancedPrompt' = EnhanceDelivered(TryRequest(resp))
    /\ inflight' = Remove(inflight, i)
    /\ sent' = <<>>
    /\ UNCHANGED <<pending, fmtVars, mounted, phase, appVars, basePrompt,
                   selectedCategory, filterCategory, savedPrompts, showSaved,
                   showResult, fieldVars, presetVars, hostVars, envVars>>

EnhanceResponse(i, resp) ==
    /\ i \in 1..Len(inflight)
    /\ inflight[i].site = "enhance"
    /\ enhancedPrompt' = EnhanceDelivered(TryRequest(resp))
    /\ loading' = FALSE
    /\ inflight' = Remove(inflight, i)
    /\ sent' = <<>>
    /\ UNCHANGED <<pending, fmtVars, mounted, phase, apiEndpoint, result, basePrompt,
                   selectedCategory, filterCategory, savedPrompts, showSaved,
                   showResult, fieldVars, presetVars, hostVars, envVars>>

\* usePrompt(prompt) for the record at position k, with the call of
\* App.handleEnhancedPrompt it makes, up to the first await.
usePrompt(k) ==
    /\ mounted = "app"
    /\ phase = "ready"
    /\ LibraryShown
    /\ k \in 1..Len(savedPrompts)
    /\ PassesFilter(savedPrompts[k])
    /\ basePrompt' = savedPrompts[k].originalPrompt
    /\ enhancedPrompt' = savedPrompts[k].enhancedPrompt
    /\ loading' = TRUE
    /\ result' = VStr("")
    /\ Fetch("generate", savedPrompts[k].enhancedPrompt,
             GenerateBody(VStr(savedPrompts[k].systemPrompt), savedPrompts[k].enhancedPrompt))
    /\ UNCHANGED <<pending, fmtVars, mounted, phase, apiEndpoint, selectedCategory,
                   filterCategory, savedPrompts, showSaved, showResult, fieldVars,
                   presetVars, hostVars, envVars>>

\* App.handleEnhancedPrompt from the response on: try, catch, finally; then
\* PromptEnhancer's effect on [activeResult], which runs when the result has
\* changed and shows the result panel when it is truthy.
GenerateResponse(i, resp) ==
    /\ i \in 1..Len(inflight)
    /\ inflight[i].site = "generate"
    /\ result' = GenerateDelivered(TryRequest(resp))
    /\ loading' = FALSE
    /\ showResult' = IF result' # result /\ ~Falsy(result') THEN TRUE ELSE showResult
    /\ inflight' = Remove(inflight, i)
    /\ sent' = <<>>
    /\ UNCHANGED <<pending, fmtVars, mounted, phase, apiEndpoint, basePrompt, enhancedPrompt,
                   selectedCategory, filterCategory, savedPrompts, showSaved,
                   fieldVars, presetVars, hostVars, envVars>>

----------------------------------------------------------------------------
(* localStorage and JSON *)

\* What localStorage holds under a key: nothing (getItem returns null), or
\* the JSON text of an array, kept as the array of the values it denotes.
Missing == [kind |-> "missing", items |-> <<>>]

StoredArray(items) == [kind |-> "array", items |-> items]

\* Other texts a key can hold: one that JSON.parse rejects (a truncated
\* array), and the JSON text of a value that is no array (null, an object).
Truncated == [kind |-> "truncated", items |-> <<>>]

StoredValue(tag) == [kind |-> tag, items |-> <<>>]

\* A value that is no array, held where the program expects one.  It is
\* kept under index 0, so that it is no sequence.
NotAList(tag) == [k \in {0} |-> tag]

\* Array.isArray
IsList(x) == DOMAIN x = 1..Cardinality(DOMAIN x)

\* new Date() at time ms, and the ISO string JSON.stringify writes for it
\* (Date.prototype.toJSON), which JSON.parse gives back as a string.
DateAt(ms) == [t |-> "Date", ms |-> ms]

IsoString(ms) == [t |-> "string", ms |-> ms]

DateToJSON(d) == IF d.t = "Date" THEN IsoString(d.ms) ELSE d

\* new Date(x).getTime() for a Date or the ISO string of one
GetTime(x) == x.ms

\* JSON.stringify of one record of each collection
StringifyPreset(p) ==
    [p EXCEPT !.temperature = StringifyNumber(@), !.maxTokens = StringifyNumber(@)]

StringifyPrompt(p) == [p EXCEPT !.createdAt = DateToJSON(@)]

\* JSON.stringify(presets), JSON.stringify(prompts)
StringifyPresets(ps) ==
    IF IsList(ps) THEN StoredArray([i \in 1..Len(ps) |-> StringifyPreset(ps[i])])
    ELSE StoredValue(ps[0])

StringifyPromptsNone(ps) == StoredArray(<<>>)

StringifyPrompts(ps) ==
    IF IsList(ps) THEN StoredArray([i \in 1..Len(ps) |-> StringifyPrompt(ps[i])])
    ELSE StoredValue(ps[0])

\* JSON.parse of a stored text: the values as written; it throws on a text
\* that is not JSON.
ParseThrows(stored) == stored.kind = "truncated"

JsonParse(stored) ==
    IF stored.kind = "array" THEN stored.items ELSE NotAList(stored.kind)

\* The load effect of both components: getItem, and when it gave a text,
\* set(JSON.parse(text)) inside try/catch.  TRUE when the setter is called.
LoadSetsAlways(stored) == TRUE

LoadSets(stored) == stored.kind # "missing" /\ ~ParseThrows(stored)

\* The collection after the load effect, current being the one before it.
LoadEffect(stored, current) ==
    IF LoadSets(stored) THEN JsonParse(stored) ELSE current

\* localStorage.setItem(key, text): it throws while the quota is exceeded
\* and then leaves the key as it was.
SetItemThrows == quotaExceeded

SetItem(st, key, stored) == IF SetItemThrows THEN st ELSE [st EXCEPT ![key] = stored]

\* PromptForm writes in an effect: an error thrown there is not caught and
\* unmounts the page.  PromptEnhancer writes in the click handlers, after
\* the setter call: the error leaves the handler and the page stays.
AfterEffectWrite(next) == IF SetItemThrows THEN "crashed" ELSE next

\* crypto.randomUUID(): the n-th identifier produced, never produced before
UuidSame(n) == "uuid-1"

Uuid(n) == "uuid-" \o ToString(n)

----------------------------------------------------------------------------
(* The two collections: presets (PromptForm), saved prompts (PromptEnhancer) *)

\* How many ids crypto.randomUUID produces, and how often the page is opened.
MaxIds == 2

MaxSessions == 2

PresetNames == {" ", "mine"}

\* The ids the handlers are called with: ids of records and ids of none.
PromptIds == {Uuid(n) : n \in 1..MaxIds}

PresetIds == {"1"} \cup PromptIds

\* list.filter(p => p.id !== id).  The handlers below that spread the
\* collection or call filter / map on it throw before they set any state
\* when the collection is no array.
WithoutIdDropsAll(list, id) == <<>>

WithoutId(list, id) == SelectSeq(list, LAMBDA p : p.id # id)

\* onChange of the preset name input
SetNewPresetName(v) ==
    /\ mounted = "form"
    /\ phase = "ready"
    /\ v # newPresetName
    /\ newPresetName' = v
    /\ sent' = <<>>
    /\ UNCHANGED <<pending, fmtVars, mounted, phase, appVars, enhancerVars, fieldVars,
                   presets, activePreset, hostVars, inflight, envVars>>

\* saveCurrentAsPreset, with the re-render it causes and the save effect on
\* [presets] of that render.
saveCurrentAsPreset ==
    /\ mounted = "form"
    /\ phase = "ready"
    /\ IsList(presets)
    /\ StrTrim(newPresetName) # ""
    /\ nextId < MaxIds
    /\ nextId' = nextId + 1
    /\ presets' = Append(presets,
                         [id |-> Uuid(nextId'), name |-> newPresetName, model |-> model,
                          systemPrompt |-> systemPrompt, temperature |-> temperature,
                          maxTokens |-> maxTokens])
    /\ newPresetName' = ""
    /\ activePreset' = Uuid(nextId')
    /\ storage' = SetItem(storage, "promptPresets", StringifyPresets(presets'))
    /\ phase' = AfterEffectWrite("ready")
    /\ sent' = <<>>
    /\ UNCHANGED <<pending, fmtVars, mounted, appVars, enhancerVars, fieldVars,
                   hostVars, inflight, clock, session, quotaExceeded>>

\* deletePreset(id, e), with the re-render and the save effect on [presets]:
\* filter returns a new array, so the effect runs whether or not a record
\* was removed.
deletePresetKeepsActive(id) ==
    /\ mounted = "form"
    /\ phase = "ready"
    /\ IsList(presets)
    /\ presets' = WithoutId(presets, id)
    /\ storage' = SetItem(storage, "promptPresets", StringifyPresets(presets'))
    /\ phase' = AfterEffectWrite("ready")
    /\ sent' = <<>>
    /\ UNCHANGED <<pending, fmtVars, mounted, appVars, enhancerVars, fieldVars,
                   newPresetName, activePreset, hostVars, inflight, nextId, clock,
                   session, quotaExceeded>>

deletePreset(id) ==
    /\ mounted = "form"
    /\ phase = "ready"
    /\ IsList(presets)
    /\ presets' = WithoutId(presets, id)
    /\ activePreset' = IF activePreset = id THEN "null" ELSE activePreset
    /\ storage' = SetItem(storage, "promptPresets", StringifyPresets(presets'))
    /\ phase' = AfterEffectWrite("ready")
    /\ sent' = <<>>
    /\ UNCHANGED <<pending, fmtVars, mounted, appVars, enhancerVars, fieldVars,
                   newPresetName, hostVars, inflight, nextId, clock, session,
                   quotaExceeded>>

\* saveEnhancedPrompt: returns at once when !enhancedPrompt.
saveEnhancedPrompt ==
    /\ mounted = "app"
    /\ phase = "ready"
    /\ IsList(savedPrompts)
    /\ ~Falsy(enhancedPrompt)
    /\ nextId < MaxIds
    /\ nextId' = nextId + 1
    /\ clock' = clock + 1
    /\ savedPrompts' = Append(savedPrompts,
                              [id |-> Uuid(nextId'), originalPrompt |-> basePrompt,
                               enhancedPrompt |-> enhancedPrompt,
                               systemPrompt |-> ENHANCEMENT_SYSTEM_PROMPT,
                               category |-> selectedCategory,
                               createdAt |-> DateAt(clock'), favorite |-> FALSE])
    /\ storage' = SetItem(storage, "enhancedPrompts", StringifyPrompts(savedPrompts'))
    /\ sent' = <<>>
    /\ UNCHANGED <<pending, fmtVars, mounted, phase, appVars, basePrompt, enhancedPrompt,
                   selectedCategory, filterCategory, showSaved, showResult, fieldVars,
                   presetVars, hostVars, inflight, session, quotaExceeded>>

\* savedPrompts.map(p => p.id === id ? { ...p, favorite: !p.favorite } : p)
ToggledAll(list, id) == [k \in 1..Len(list) |-> [list[k] EXCEPT !.favorite = ~@]]

Toggled(list, id) ==
    [k \in 1..Len(list) |->
        IF list[k].id = id THEN [list[k] EXCEPT !.favorite = ~@] ELSE list[k]]

\* toggleFavorite(id)
toggleFavorite(id) ==
    /\ mounted = "app"
    /\ phase = "ready"
    /\ IsList(savedPrompts)
    /\ savedPrompts' = Toggled(savedPrompts, id)
    /\ storage' = SetItem(storage, "enhancedPrompts", StringifyPrompts(savedPrompts'))
    /\ sent' = <<>>
    /\ UNCHANGED <<pending, fmtVars, mounted, phase, appVars, basePrompt, enhancedPrompt,
                   selectedCategory, filterCategory, showSaved, showResult, fieldVars,
                   presetVars, hostVars, inflight, nextId, clock, session,
                   quotaExceeded>>

\* deletePrompt(id)
deletePrompt(id) ==
    /\ mounted = "app"
    /\ phase = "ready"
    /\ IsList(savedPrompts)
    /\ savedPrompts' = WithoutId(savedPrompts, id)
    /\ storage' = SetItem(storage, "enhancedPrompts", StringifyPrompts(savedPrompts'))
    /\ sent' = <<>>
    /\ UNCHANGED <<pending, fmtVars, mounted, phase, appVars, basePrompt, enhancedPrompt,
                   selectedCategory, filterCategory, showSaved, showResult, fieldVars,
                   presetVars, hostVars, inflight, nextId, clock, session,
                   quotaExceeded>>

----------------------------------------------------------------------------
(* The library view of PromptEnhancer *)

\* p => filterCategory === 'All' || p.category === filterCategory
MatchesAny(p, f) == TRUE

Matches(p, f) == f = "All" \/ p.category = f

\* list.filter(...): a new array of the matching records, in order
FilterByCategory(list, f) == SelectSeq(list, LAMBDA p : Matches(p, f))

\* One step of the stable sort under the comparator
\* (a, b) => new Date(b.createdAt).getTime() - new Date(a.createdAt).getTime():
\* rec goes behind every record that is not older than it.
InsertByCreatedAt(sorted, rec) ==
    LET k == Cardinality({i \in 1..Len(sorted) :
                            GetTime(sorted[i].createdAt) >= GetTime(rec.createdAt)})
    IN  SubSeq(sorted, 1, k) \o <<rec>> \o SubSeq(sorted, k + 1, Len(sorted))

\* list.sort(comparator)
RECURSIVE SortByCreatedAtDesc(_)
SortKeepsOrder(list) == list

SortByCreatedAtDesc(list) ==
    IF list = <<>> THEN <<>>
    ELSE InsertByCreatedAt(SortByCreatedAtDesc(SubSeq(list, 1, Len(list) - 1)),
                           list[Len(list)])

\* savedPrompts.filter(...).sort(...) as the render evaluates it: the records
\* listed, and the array savedPrompts refers to afterwards.  sort works in
\* place, on the array filter returned.
RenderLibraryInPlace(list, f) ==
    [view |-> FilterByCategory(SortByCreatedAtDesc(list), f),
     savedPrompts |-> SortByCreatedAtDesc(list)]

RenderLibrary(list, f) ==
    [view |-> SortByCreatedAtDesc(FilterByCategory(list, f)),
     savedPrompts |-> list]

\* The records the library panel lists.
LibraryView == RenderLibrary(savedPrompts, filterCategory).view

FilterCategories == {"All"} \cup Categories

\* onChange of the library's category select, with the render that follows
SetFilterCategory(c) ==
    /\ mounted = "app"
    /\ phase = "ready"
    /\ LibraryShown
    /\ c # filterCategory
    /\ filterCategory' = c
    /\ savedPrompts' = RenderLibrary(savedPrompts, c).savedPrompts
    /\ sent' = <<>>
    /\ UNCHANGED <<pending, fmtVars, mounted, phase, appVars, basePrompt, enhancedPrompt,
                   selectedCategory, showSaved, showResult, fieldVars, presetVars,
                   hostVars, inflight, envVars>>

----------------------------------------------------------------------------
(* Mounting and restarting *)

\* PromptEnhancer's render reads savedPrompts.length for the library button,
\* which throws on null; an error thrown while rendering unmounts the page.
RenderThrows(list) == ~IsList(list) /\ list[0] = "null"

\* PromptEnhancer's mount effect with the re-render it causes: the stored
\* library, when there is one that parses, becomes savedPrompts.
EnhancerMountEffects ==
    /\ mounted = "app"
    /\ phase = "mounting"
    /\ savedPrompts' = LoadEffect(storage.enhancedPrompts, savedPrompts)
    /\ phase' = IF RenderThrows(savedPrompts') THEN "crashed" ELSE "ready"
    /\ UNCHANGED pending
    /\ sent' = <<>>
    /\ UNCHANGED <<fmtVars, mounted, appVars, basePrompt, enhancedPrompt,
                   selectedCategory, filterCategory, showSaved, showResult,
                   fieldVars, presetVars, hostVars, inflight, envVars>>

\* PromptForm's two mount effects, run one after the other on the first
\* render: the load effect queues setPresets(parsed) when presets are stored,
\* then the save effect writes the presets of the first render.
FormMountEffects ==
    /\ mounted = "form"
    /\ phase = "mounting"
    /\ pending' = IF LoadSets(storage.promptPresets)
                  THEN [queued |-> TRUE, value |-> JsonParse(storage.promptPresets)]
                  ELSE [queued |-> FALSE, value |-> <<>>]
    /\ storage' = SetItem(storage, "promptPresets", StringifyPresets(presets))
    /\ phase' = AfterEffectWrite("loaded")
    /\ sent' = <<>>
    /\ UNCHANGED <<fmtVars, mounted, appVars, enhancerVars, fieldVars, presetVars,
                   hostVars, inflight, nextId, clock, session, quotaExceeded>>

\* The re-render after the mount effects: the queued presets become the
\* state and, presets having changed, the save effect writes them.
FormRerender ==
    /\ mounted = "form"
    /\ phase = "loaded"
    /\ presets' = IF pending.queued THEN pending.value ELSE presets
    /\ storage' = IF pending.queued
                  THEN SetItem(storage, "promptPresets", StringifyPresets(presets'))
                  ELSE storage
    /\ pending' = [queued |-> FALSE, value |-> <<>>]
    /\ phase' = IF pending.queued THEN AfterEffectWrite("ready") ELSE "ready"
    /\ sent' = <<>>
    /\ UNCHANGED <<fmtVars, mounted, appVars, enhancerVars, fieldVars,
                   newPresetName, activePreset, hostVars, inflight, nextId, clock, session,
                   quotaExceeded>>

\* The page, running or unmounted by an error, is closed and opened again:
\* component state is constructed
\* anew, responses still awaited are never handled, localStorage stays.
Restart ==
    /\ phase \in {"ready", "crashed"}
    /\ session < MaxSessions
    /\ session' = session + 1
    /\ phase' = "mounting"
    /\ pending' = [queued |-> FALSE, value |-> <<>>]
    /\ apiEndpoint' = "http://localhost:1234"
    /\ loading' = FALSE
    /\ result' = VStr("")
    /\ basePrompt' = ""
    /\ enhancedPrompt' = VStr("")
    /\ selectedCategory' = "General"
    /\ filterCategory' = "All"
    /\ savedPrompts' = <<>>
    /\ showSaved' = FALSE
    /\ showResult' = FALSE
    /\ systemPrompt' = "Always answer in rhymes. Today is Thursday"
    /\ userPrompt' = "What day is it today?"
    /\ temperature' = JNum(7)
    /\ model' = MODEL_NAME
    /\ maxTokens' = JNum(-1)
    /\ stream' = FALSE
    /\ presets' = DEFAULT_PRESETS
    /\ newPresetName' = ""
    /\ activePreset' = "null"
    /\ formResult' = VStr("")
    /\ formLoading' = FALSE
    /\ inflight' = <<>>
    /\ sent' = <<>>
    /\ UNCHANGED <<fmtVars, mounted, storage, nextId, clock, quotaExceeded>>

----------------------------------------------------------------------------
(* The request behaviour of the three call sites *)

\* A library an earlier session saved: one record, as JSON.stringify wrote it.
StoredSamplePrompt ==
    [id |-> Uuid(1), originalPrompt |-> "p1", enhancedPrompt |-> VStr("out1"),
     systemPrompt |-> ENHANCEMENT_SYSTEM_PROMPT, category |-> "Coding",
     createdAt |-> IsoString(0), favorite |-> FALSE]

FormatterIdle ==
    /\ text = <<>>
    /\ segments = <<>>
    /\ fmtDone = FALSE

\* The page opens with App or with a PromptForm, over a localStorage that
\* holds the library of an earlier session.
InitChat ==
    /\ FormatterIdle
    /\ mounted \in {"app", "form"}
    /\ phase = "mounting"
    /\ pending = [queued |-> FALSE, value |-> <<>>]
    /\ AppInit /\ EnhancerInit /\ FieldsInit /\ PresetsInit /\ HostInit /\ NetInit
    /\ storage = [promptPresets |-> Missing,
                  enhancedPrompts |-> StoredArray(<<StoredSamplePrompt>>)]
    /\ nextId = 1
    /\ clock = 1
    /\ session = 1
    /\ quotaExceeded = FALSE

NextChat ==
    \/ EnhancerMountEffects
    \/ FormMountEffects
    \/ FormRerender
    \/ \E v \in UserPrompts : SetUserPrompt(v)
    \/ \E input \in MaxTokensInputs : SetMaxTokens(input)
    \/ \E b \in BOOLEAN : SetStream(b)
    \/ \E k \in 1..Len(presets) : loadPreset(k)
    \/ handleSubmit
    \/ \E i \in 1..Len(inflight), resp \in Responses : FormResponse(i, resp)
    \/ \E v \in BasePrompts : SetBasePrompt(v)
    \/ \E v \in ApiEndpoints : SetApiEndpoint(v)
    \/ ToggleShowSaved
    \/ HideResult
    \/ enhancePrompt
    \/ \E i \in 1..Len(inflight), resp \in Responses : EnhanceResponse(i, resp)
    \/ \E k \in 1..Len(savedPrompts) : usePrompt(k)
    \/ \E i \in 1..Len(inflight), resp \in Responses : GenerateResponse(i, resp)

SpecChat == InitChat /\ [][NextChat]_vars

\* Every fetch settles: the promise is fulfilled or rejected and the handler
\* that awaits it runs on.
ResponseArrives ==
    \E i \in 1..Len(inflight), resp \in Responses :
        \/ FormResponse(i, resp)
        \/ EnhanceResponse(i, resp)
        \/ GenerateResponse(i, resp)

SpecChatFair == SpecChat /\ WF_vars(ResponseArrives)

----------------------------------------------------------------------------
(* The collections across sessions *)

\* The answers of the service in the sessions that edit the collections.
StoreResponses ==
    {[net |-> "fail", json |-> FALSE, data |-> VUndefined],
     [net |-> "ok", json |-> TRUE,
      data |-> VObj([choices |-> VArr1(VObj([message |->
                       VObj([content |-> VStr("out1")])]))])]}

\* The page opens for the first time with App or with a PromptForm, over an
\* empty localStorage.
InitStore ==
    /\ FormatterIdle
    /\ mounted \in {"app", "form"}
    /\ phase = "mounting"
    /\ pending = [queued |-> FALSE, value |-> <<>>]
    /\ AppInit /\ EnhancerInit /\ FieldsInit /\ PresetsInit /\ HostInit /\ NetInit
    /\ storage = [promptPresets |-> Missing, enhancedPrompts |-> Missing]
    /\ nextId = 0
    /\ clock = 0
    /\ session = 1
    /\ quotaExceeded = FALSE

NextStore ==
    \/ EnhancerMountEffects
    \/ FormMountEffects
    \/ FormRerender
    \/ Restart
    \/ \E v \in PresetNames : SetNewPresetName(v)
    \/ \E input \in {""} : SetMaxTokens(input)
    \/ \E k \in {Len(presets)} : loadPreset(k)
    \/ saveCurrentAsPreset
    \/ \E id \in PresetIds : deletePreset(id)
    \/ \E v \in {"", "p1"} : SetBasePrompt(v)
    \/ enhancePrompt
    \/ \E i \in 1..Len(inflight), resp \in StoreResponses : EnhanceResponse(i, resp)
    \/ saveEnhancedPrompt
    \/ \E id \in PromptIds : toggleFavorite(id)
    \/ \E id \in PromptIds : deletePrompt(id)

SpecStore == InitStore /\ [][NextStore]_vars

----------------------------------------------------------------------------
(* The actions behind disabled buttons *)

\* The three inputs are typed, blank or not, and the three actions they
\* guard are tried, over an empty localStorage.
NextGuards ==
    \/ EnhancerMountEffects
    \/ FormMountEffects
    \/ FormRerender
    \/ \E v \in BasePrompts : SetBasePrompt(v)
    \/ enhancePrompt
    \/ \E i \in 1..Len(inflight), resp \in StoreResponses : EnhanceResponse(i, resp)
    \/ \E v \in UserPrompts : SetUserPrompt(v)
    \/ handleSubmit
    \/ \E i \in 1..Len(inflight), resp \in StoreResponses : FormResponse(i, resp)
    \/ \E v \in PresetNames : SetNewPresetName(v)
    \/ saveCurrentAsPreset

SpecGuards == InitStore /\ [][NextGuards]_vars

----------------------------------------------------------------------------
(* Saving what was enhanced *)

PairingPrompts == {"p1", "p2"}

\* A service whose output names the user message it was asked to enhance.
EnhancedFrom(user) == VStr("enhanced " \o user)

AnswerTo(user) ==
    [net |-> "ok", json |-> TRUE,
     data |-> VObj([choices |-> VArr1(VObj([message |->
                      VObj([content |-> EnhancedFrom(user.s)])]))])]

\* App opens over an empty localStorage.
InitPairing == InitStore /\ mounted = "app"

\* The basic prompt is edited, enhanced and saved, and records of the
\* library are used; every enhancement succeeds.
NextPairing ==
    \/ EnhancerMountEffects
    \/ \E v \in PairingPrompts : SetBasePrompt(v)
    \/ enhancePrompt
    \/ \E i \in 1..Len(inflight) : EnhanceResponse(i, AnswerTo(inflight[i].user))
    \/ saveEnhancedPrompt
    \/ ToggleShowSaved
    \/ \E k \in 1..Len(savedPrompts) : usePrompt(k)
    \/ \E i \in 1..Len(inflight), resp \in StoreResponses : GenerateResponse(i, resp)
    \/ HideResult

SpecPairing == InitPairing /\ [][NextPairing]_vars

----------------------------------------------------------------------------
(* The collections over a localStorage the program does not control *)

\* A second record of an earlier session's library.
StoredOtherPrompt ==
    [id |-> Uuid(2), originalPrompt |-> "p1", enhancedPrompt |-> VStr("out2"),
     systemPrompt |-> ENHANCEMENT_SYSTEM_PROMPT, category |-> "General",
     createdAt |-> IsoString(1), favorite |-> TRUE]

\* The origin's storage quota is reached, or storage is freed again.
SetQuotaExceeded(b) ==
    /\ b # quotaExceeded
    /\ quotaExceeded' = b
    /\ sent' = <<>>
    /\ UNCHANGED <<fmtVars, mounted, phase, appVars, enhancerVars, fieldVars, presetVars,
                   pending, hostVars, inflight, storage, nextId, clock, session>>

\* What the two keys can hold when the page opens.
StoredPresetTexts ==
    {Missing, Truncated, StoredValue("null"), StoredValue("object"),
     StoredArray(<<>>), StringifyPresets(DEFAULT_PRESETS)}

StoredLibraryTexts ==
    {Missing, Truncated, StoredValue("null"), StoredValue("object"),
     StoredArray(<<>>), StoredArray(<<StoredSamplePrompt>>),
     StoredArray(<<StoredSamplePrompt, StoredOtherPrompt>>)}

\* The page opens with App or with a PromptForm over any of these texts.
InitStorage ==
    /\ FormatterIdle
    /\ mounted \in {"app", "form"}
    /\ phase = "mounting"
    /\ pending = [queued |-> FALSE, value |-> <<>>]
    /\ AppInit /\ EnhancerInit /\ FieldsInit /\ PresetsInit /\ HostInit /\ NetInit
    /\ storage \in
         IF mounted = "form"
         THEN {[promptPresets |-> t, enhancedPrompts |-> Missing] : t \in StoredPresetTexts}
         ELSE {[promptPresets |-> Missing, enhancedPrompts |-> t] : t \in StoredLibraryTexts}
    /\ nextId = IF mounted = "form" THEN 0 ELSE MaxIds
    /\ clock = 2
    /\ session = 1
    /\ quotaExceeded = FALSE

NextStorage ==
    \/ EnhancerMountEffects
    \/ FormMountEffects
    \/ FormRerender
    \/ Restart
    \/ \E v \in PresetNames : SetNewPresetName(v)
    \/ saveCurrentAsPreset
    \/ \E id \in PresetIds : deletePreset(id)
    \/ \E id \in PromptIds : toggleFavorite(id)
    \/ \E id \in PromptIds : deletePrompt(id)
    \/ \E b \in BOOLEAN : SetQuotaExceeded(b)

SpecStorage == InitStorage /\ [][NextStorage]_vars

----------------------------------------------------------------------------
(* The library view over the libraries a session can hold *)

\* How many records a library holds; so many are the times of creation.
MaxLibrary == 3

\* The n-th record of a library: loaded from storage (createdAt is the ISO
\* string) or saved in this session (createdAt is the Date).
LibraryRecord(n, category, time, loaded) ==
    [id |-> Uuid(n), originalPrompt |-> "p1", enhancedPrompt |-> VStr("out1"),
     systemPrompt |-> ENHANCEMENT_SYSTEM_PROMPT, category |-> category,
     createdAt |-> IF loaded THEN IsoString(time) ELSE DateAt(time),
     favorite |-> FALSE]

\* The categories and times of n records: any categories with times in the
\* order of saving, or one category with any times (the clock may have been
\* set back between two saves).
Shapes(n) ==
    ([1..n -> Categories] \X {[i \in 1..n |-> i]})
        \cup ({[i \in 1..n |-> "Coding"]} \X [1..n -> 1..n])

\* Libraries of up to MaxLibrary records: the first one was loaded or all
\* were saved in this session.
Libraries ==
    UNION {{[i \in 1..n |-> LibraryRecord(i, sh[1][i], sh[2][i], i <= k)] :
              sh \in Shapes(n), k \in 0..1} :
           n \in 1..MaxLibrary}

\* App with the library panel open over one of these libraries.
InitLibrary ==
    /\ FormatterIdle
    /\ mounted = "app"
    /\ phase = "ready"
    /\ pending = [queued |-> FALSE, value |-> <<>>]
    /\ AppInit /\ FieldsInit /\ PresetsInit /\ HostInit /\ NetInit
    /\ basePrompt = ""
    /\ enhancedPrompt = VStr("")
    /\ selectedCategory = "General"
    /\ filterCategory = "All"
    /\ savedPrompts \in Libraries
    /\ showSaved = TRUE
    /\ showResult = FALSE
    /\ storage = [promptPresets |-> Missing,
                  enhancedPrompts |-> StringifyPrompts(savedPrompts)]
    /\ nextId = Len(savedPrompts)
    /\ clock = MaxLibrary
    /\ session = 1
    /\ quotaExceeded = FALSE

NextLibrary == \E c \in FilterCategories : SetFilterCategory(c)

SpecLibrary == InitLibrary /\ [][NextLibrary]_vars

----------------------------------------------------------------------------
(* The texts the formatter is run on *)

FENCE == <<BT, BT, BT>>

\* Texts are built from these pieces; a fence costs one piece.
Chunks == {FENCE, <<BT>>, <<NL>>, <<SP>>, <<"a">>, <<".">>}

MaxChunks == 5

RECURSIVE Flatten(_)
Flatten(ss) == IF ss = <<>> THEN <<>> ELSE Head(ss) \o Flatten(Tail(ss))

BoundedTexts ==
    {Flatten(cs) : cs \in UNION {[1..n -> Chunks] : n \in 0..MaxChunks}}

\* "a\n```code```\nb"
ExampleMid == <<"a", NL>> \o FENCE \o <<"c", "o", "d", "e">> \o FENCE \o <<NL, "b">>

\* "```x```\ntail"
ExampleStart == FENCE \o <<"x">> \o FENCE \o <<NL, "t", "a", "i", "l">>

\* "```ts\nlet x```"
ExampleTag == FENCE \o <<"t", "x", NL, "l", "e", "t", SP, "x">> \o FENCE

Texts == BoundedTexts \cup {ExampleMid, ExampleStart, ExampleTag}

----------------------------------------------------------------------------
(* The formatter as a state machine: a text arrives, the view renders it *)

InitFormat ==
    /\ text \in Texts
    /\ segments = <<>>
    /\ fmtDone = FALSE
    /\ ComponentsAtRest

\* {formatOutput(activeResult || '')}
Format ==
    /\ ~fmtDone
    /\ segments' = formatOutput(text)
    /\ fmtDone' = TRUE
    /\ sent' = <<>>
    /\ UNCHANGED <<pending, text, mounted, phase, appVars, enhancerVars, fieldVars,
                   presetVars, hostVars, inflight, envVars>>

NextFormat == Format

SpecFormat == InitFormat /\ [][NextFormat]_vars

----------------------------------------------------------------------------
(* Reading a text and the rendered blocks *)

\* The characters of s that trim would not remove, in order.
RECURSIVE NonWs(_)
NonWs(s) ==
    IF s = <<>> THEN <<>>
    ELSE (IF Head(s) \in WhiteSpace THEN <<>> ELSE <<Head(s)>>) \o NonWs(Tail(s))

HasNo(s, c) == \A i \in 1..Len(s) : s[i] # c

\* What one rendered block shows, and what all of them show.
Content(seg) == Flatten(seg.lines)

AllContent(segs) == Flatten([i \in 1..Len(segs) |-> Content(segs[i])])

Kinds(segs) == [i \in 1..Len(segs) |-> segs[i].kind]

\* The text holds exactly two runs of three backquotes: A fence C fence B.
BtAt(t) == {i \in 1..Len(t) : t[i] = BT}

FirstBt(t) == CHOOSE i \in BtAt(t) : \A j \in BtAt(t) : i <= j

LastBt(t) == CHOOSE i \in BtAt(t) : \A j \in BtAt(t) : j <= i

OneBlock(t) ==
    /\ Cardinality(BtAt(t)) = 6
    /\ LET i == FirstBt(t)
           j == LastBt(t) - 2
       IN  j > i + 2 /\ BtAt(t) = {i, i + 1, i + 2, j, j + 1, j + 2}

BeforeBlock(t) == SubSeq(t, 1, FirstBt(t) - 1)

InBlock(t) == SubSeq(t, FirstBt(t) + 3, LastBt(t) - 3)

AfterBlock(t) == SubSeq(t, LastBt(t) + 1, Len(t))

\* The shape of the documented examples: the block is one line of code and
\* the prose after it starts on a new line.
ExampleShape(t) ==
    /\ OneBlock(t)
    /\ ~IsBlank(InBlock(t))
    /\ HasNo(InBlock(t), NL)
    /\ AfterBlock(t) # <<>>
    /\ Head(AfterBlock(t)) = NL
    /\ ~IsBlank(AfterBlock(t))

\* The text with every match of the split pattern removed (withTag), or with
\* only the three backquotes of every match removed (~withTag).
RECURSIVE StripFrom(_, _, _)
StripFrom(t, i, withTag) ==
    IF i > Len(t) THEN <<>>
    ELSE IF FenceLen(t, i) > 0
         THEN StripFrom(t, i + (IF withTag THEN FenceLen(t, i) ELSE 3), withTag)
         ELSE <<t[i]>> \o StripFrom(t, i + 1, withTag)

----------------------------------------------------------------------------
(* Properties of the formatter, under SpecFormat *)

\* C1: a text that does not start with a fence and holds one fenced block
\* between two prose parts is rendered as three blocks: text, code, text, the
\* code block holding what lies between the fences; "a\n```code```\nb" gives
\* text "a", code "code", text "b".
C1_FenceBetweenProse ==
    (fmtDone /\ ExampleShape(text) /\ ~IsBlank(BeforeBlock(text)))
        => /\ Kinds(segments) = <<"text", "code", "text">>
           /\ Content(segments[2]) = Trim(InBlock(text))
           /\ (text = ExampleMid =>
                 /\ Content(segments[1]) = <<"a">>
                 /\ Content(segments[2]) = <<"c", "o", "d", "e">>
                 /\ Content(segments[3]) = <<"b">>)

\* C2: a text whose trimmed form starts with a fence, followed by the block,
\* its closing fence and prose on a new line, is rendered as a code block
\* holding the block's content and then a text block holding the prose;
\* "```x```\ntail" gives code "x", text "tail".
C2_LeadingFence ==
    (fmtDone /\ ExampleShape(text) /\ IsBlank(BeforeBlock(text)))
        => /\ Kinds(segments) = <<"code", "text">>
           /\ segments[1].lines = <<Trim(InBlock(text))>>
           /\ NonWs(Content(segments[2])) = NonWs(AfterBlock(text))
           /\ (text = ExampleStart =>
                 /\ Content(segments[1]) = <<"x">>
                 /\ segments[2].lines = <<<<"t", "a", "i", "l">>>>)

C2_Witness == fmtDone /\ text = ExampleStart /\ Len(segments) = 2

\* C3 as stated: the blocks' contents, concatenated, are the text's
\* non-whitespace characters once the triple backquotes alone are removed.
C3_OnlyBackquotesLost ==
    fmtDone => NonWs(AllContent(segments)) = NonWs(StripFrom(text, 1, FALSE))

\* C3: the blocks' contents, concatenated, are the text's non-whitespace
\* characters in order once every fence marker is removed, a marker being
\* three backquotes together with the run of word characters that directly
\* follows them when that run ends in a newline.
C3_ContentKept ==
    fmtDone => NonWs(AllContent(segments)) = NonWs(StripFrom(text, 1, TRUE))

C3_Witness ==
    /\ fmtDone
    /\ \E i \in 1..Len(text) : FenceLen(text, i) > 4
    /\ Len(segments) >= 2

\* C4: no rendered block is empty or whitespace-only: every block shows at
\* least one line and every line it shows has a non-whitespace character.
C4_NoBlankSegment ==
    fmtDone => \A k \in 1..Len(segments) :
                 /\ Len(segments[k].lines) >= 1
                 /\ \A n \in 1..Len(segments[k].lines) : ~IsBlank(segments[k].lines[n])

\* A blank part was dropped, and a blank paragraph inside a text block.
C4_Witness ==
    /\ fmtDone
    /\ segments # <<>>
    /\ Len(segments) < Len(SplitFences(text))
    /\ \E k \in 1..Len(segments) :
          /\ segments[k].kind = "text"
          /\ Len(segments[k].lines) < Len(SplitLines(SplitFences(text)[segments[k].key + 1]))

----------------------------------------------------------------------------
(* Properties of the three call sites, under SpecChat *)

\* A step in which a request starts to be awaited, and one in which a
\* response is handled.
CallStep == Len(inflight') > Len(inflight)

ResponseStep == Len(inflight') < Len(inflight)

DocumentedFields == {"model", "messages", "temperature", "max_tokens", "stream"}

\* C5: whatever the service answers, the value each call site hands to its
\* display state (onResult, setEnhancedPrompt, setResult) is a string.
C5_AlwaysString ==
    /\ formResult.tag = "string"
    /\ enhancedPrompt.tag = "string"
    /\ result.tag = "string"

\* C6 as stated: at each of the three call sites a request whose handling
\* threw is shown as "Error: " followed by the caught error's message.
C6_ErrorPrefix ==
    [][ResponseStep => \A i \in 1..Len(inflight), resp \in Responses :
          TryRequest(resp).thrown =>
            /\ FormResponse(i, resp) =>
                 formResult' = VStr("Error: " \o TryRequest(resp).message)
            /\ EnhanceResponse(i, resp) =>
                 enhancedPrompt' = VStr("Error: " \o TryRequest(resp).message)
            /\ GenerateResponse(i, resp) =>
                 result' = VStr("Error: " \o TryRequest(resp).message)]_vars

\* C6: a request whose handling threw is shown as the caught error's message
\* behind a prefix: "Error: " at the direct submission and at the generation
\* request, "Error enhancing prompt: " at the enhancement request.
C6_ErrorText ==
    [][ResponseStep => \A i \in 1..Len(inflight), resp \in Responses :
          TryRequest(resp).thrown =>
            /\ FormResponse(i, resp) =>
                 formResult' = VStr("Error: " \o TryRequest(resp).message)
            /\ EnhanceResponse(i, resp) =>
                 enhancedPrompt' =
                     VStr("Error enhancing prompt: " \o TryRequest(resp).message)
            /\ GenerateResponse(i, resp) =>
                 result' = VStr("Error: " \o TryRequest(resp).message)]_vars

\* The enhancement request was rejected by the network and its handling is
\* over: the caught message is shown behind the enhancement prefix.
C6_Witness ==
    /\ enhancedPrompt = VStr("Error enhancing prompt: Failed to fetch")
    /\ loading = FALSE
    /\ inflight = <<>>

C8_MaxTokensUnchanged ==
    (Len(sent) = 1 /\ sent[1].site = "form") => sent[1].body.max_tokens = maxTokens

----------------------------------------------------------------------------
(* The collections across a restart *)

\* What the load effect of a newly opened page makes of localStorage: the
\* parsed array, or the initial state when the key holds nothing.
LoadedPresets(st) == LoadEffect(st.promptPresets, DEFAULT_PRESETS)

LoadedPrompts(st) == LoadEffect(st.enhancedPrompts, <<>>)

\* The presets the re-render after PromptForm's mount effects will show.
PendingPresets == IF pending.queued THEN pending.value ELSE presets

Ids(list) == [k \in 1..Len(list) |-> list[k].id]

HasId(list, id) == \E k \in 1..Len(list) : list[k].id = id

\* A step of a running session that adds a record to a collection.
AddStep ==
    /\ phase = "ready"
    /\ phase' = "ready"
    /\ \/ Len(presets') = Len(presets) + 1
       \/ Len(savedPrompts') = Len(savedPrompts) + 1

\* C9 as stated: after an add, what a restart loads is the collection as it
\* was with the added record appended, every field of that record equal to
\* the value it was created with and its id different from every earlier id.
C9_AddSurvivesRestart ==
    [][AddStep =>
         /\ mounted = "form" =>
              /\ Len(LoadedPresets(storage')) = Len(presets) + 1
              /\ LoadedPresets(storage')[Len(presets) + 1] = presets'[Len(presets) + 1]
              /\ \A k \in 1..Len(presets) :
                    /\ LoadedPresets(storage')[k].id = presets[k].id
                    /\ presets[k].id # presets'[Len(presets) + 1].id
         /\ mounted = "app" =>
              /\ Len(LoadedPrompts(storage')) = Len(savedPrompts) + 1
              /\ LoadedPrompts(storage')[Len(savedPrompts) + 1]
                    = savedPrompts'[Len(savedPrompts) + 1]
              /\ \A k \in 1..Len(savedPrompts) :
                    /\ LoadedPrompts(storage')[k].id = savedPrompts[k].id
                    /\ savedPrompts[k].id # savedPrompts'[Len(savedPrompts) + 1].id]_vars

\* C10: remove(id) leaves, in memory and in what a restart loads, exactly the
\* records with another id in their previous order, and leaves both as they
\* were when no record has the id; a restart keeps localStorage, and the
\* load that follows it makes the persisted collection the collection in
\* memory.
C10_RemoveSurvivesRestart ==
    [][/\ \A id \in PresetIds : deletePreset(id) =>
            /\ ~HasId(LoadedPresets(storage'), id)
            /\ presets' = SelectSeq(presets, LAMBDA p : p.id # id)
            /\ LoadedPresets(storage')
                  = SelectSeq(LoadedPresets(storage), LAMBDA p : p.id # id)
            /\ ~HasId(presets, id) =>
                  /\ presets' = presets
                  /\ LoadedPresets(storage') = LoadedPresets(storage)
       /\ \A id \in PromptIds : deletePrompt(id) =>
            /\ ~HasId(LoadedPrompts(storage'), id)
            /\ savedPrompts' = SelectSeq(savedPrompts, LAMBDA p : p.id # id)
            /\ LoadedPrompts(storage')
                  = SelectSeq(LoadedPrompts(storage), LAMBDA p : p.id # id)
            /\ ~HasId(savedPrompts, id) =>
                  /\ savedPrompts' = savedPrompts
                  /\ LoadedPrompts(storage') = LoadedPrompts(storage)
       /\ session' # session => storage' = storage
       /\ (mounted = "app" /\ phase = "mounting" /\ phase' = "ready") =>
            /\ savedPrompts' = LoadedPrompts(storage)
            /\ storage' = storage
       /\ (mounted = "form" /\ phase = "mounting" /\ phase' = "loaded") =>
            PendingPresets' = LoadedPresets(storage)
       /\ (mounted = "form" /\ phase = "loaded" /\ phase' = "ready") =>
            /\ presets' = PendingPresets
            /\ LoadedPresets(storage') = presets']_vars

\* Preset 1 was removed in the first session; the page was opened again and
\* its load effect has read the remaining presets, in their order.
C10_Witness ==
    /\ session = 2
    /\ mounted = "form"
    /\ phase = "loaded"
    /\ pending.queued
    /\ Ids(pending.value) = <<"2", "3">>

----------------------------------------------------------------------------
(* Loading *)

\* The key holds a text that is not the JSON text of an array.
NoArrayStored(stored) == stored.kind \notin {"missing", "array"}

\* C11: whatever text other than a JSON array the key holds, the load gives
\* the default collection (the three seed presets, the empty library), the
\* page keeps running and the collection in memory is a list.
C11_LoadFallsBack ==
    [][/\ (mounted = "app" /\ phase = "mounting" /\ NoArrayStored(storage.enhancedPrompts)) =>
            /\ phase' = "ready"
            /\ savedPrompts' = <<>>
       /\ (mounted = "form" /\ phase = "mounting" /\ NoArrayStored(storage.promptPresets)) =>
            /\ phase' = "loaded"
            /\ PendingPresets' = DEFAULT_PRESETS]_vars


\* C12: when the key is missing as the page opens, the library in memory is
\* the empty list and the presets in memory are DEFAULT_PRESETS, ids "1",
\* "2", "3" in that order, through the mount effects and the render that
\* follows them.
C12_MissingKeyDefaults ==
    [][/\ (mounted = "app" /\ phase = "mounting"
              /\ storage.enhancedPrompts.kind = "missing") =>
            /\ phase' = "ready"
            /\ savedPrompts' = <<>>
       /\ (mounted = "form" /\ phase = "mounting"
              /\ storage.promptPresets.kind = "missing") =>
            /\ ~pending'.queued
            /\ presets' = DEFAULT_PRESETS
            /\ Ids(presets') = <<"1", "2", "3">>
       /\ (mounted = "form" /\ phase = "loaded" /\ ~pending.queued) =>
            /\ phase' = "ready"
            /\ presets' = presets]_vars

\* The first session of a PromptForm over an empty localStorage: the load
\* effect has queued nothing and the seed presets are in memory.
C12_Witness ==
    /\ session = 1
    /\ mounted = "form"
    /\ phase = "ready"
    /\ nextId = 0
    /\ Ids(presets) = <<"1", "2", "3">>
    /\ presets = DEFAULT_PRESETS


----------------------------------------------------------------------------
(* Persisting *)

\* The stored record is what JSON writes for the record in memory: every
\* field as it is, a NaN number as null, a Date as the ISO string of the
\* same instant.
PresetAsStored(rec, stored) ==
    /\ stored.id = rec.id
    /\ stored.name = rec.name
    /\ stored.model = rec.model
    /\ stored.systemPrompt = rec.systemPrompt
    /\ stored.temperature = IF rec.temperature.t = "NaN" THEN JNull ELSE rec.temperature
    /\ stored.maxTokens = IF rec.maxTokens.t = "NaN" THEN JNull ELSE rec.maxTokens

PromptAsStored(rec, stored) ==
    /\ stored.id = rec.id
    /\ stored.originalPrompt = rec.originalPrompt
    /\ stored.enhancedPrompt = rec.enhancedPrompt
    /\ stored.systemPrompt = rec.systemPrompt
    /\ stored.category = rec.category
    /\ stored.favorite = rec.favorite
    /\ stored.createdAt.t = "string"
    /\ stored.createdAt.ms = rec.createdAt.ms

\* The key of the mounted component's collection holds the whole collection.
InSync ==
    IF mounted = "form"
    THEN /\ IsList(presets)
         /\ storage.promptPresets.kind = "array"
         /\ Len(storage.promptPresets.items) = Len(presets)
         /\ \A k \in 1..Len(presets) :
               PresetAsStored(presets[k], storage.promptPresets.items[k])
    ELSE /\ IsList(savedPrompts)
         /\ storage.enhancedPrompts.kind = "array"
         /\ Len(storage.enhancedPrompts.items) = Len(savedPrompts)
         /\ \A k \in 1..Len(savedPrompts) :
               PromptAsStored(savedPrompts[k], storage.enhancedPrompts.items[k])

\* A step of a running page that changes a collection or what is stored.
MutationStep ==
    /\ phase = "ready"
    /\ phase' = "ready"
    /\ presets' # presets \/ savedPrompts' # savedPrompts \/ storage' # storage

\* C13: after every add, toggle and delete the collection's key holds the
\* serialization of the whole collection in memory, record by record and in
\* order.
C13_PersistedIsCollection == [][MutationStep => InSync']_vars

\* The first saved prompt was deleted, the second was saved and marked as
\* favourite; the key holds that one record.
C13_Witness ==
    /\ mounted = "app"
    /\ phase = "ready"
    /\ Len(savedPrompts) = 1
    /\ savedPrompts[1].id = Uuid(2)
    /\ savedPrompts[1].favorite
    /\ savedPrompts[1].createdAt.t = "Date"
    /\ InSync


\* C14: a mutation made while the write to localStorage fails leaves the
\* page running with the mutation in memory and the key as it was, and the
\* next mutation whose write succeeds stores the whole collection.
C14_WriteFailureTolerated ==
    [][/\ (phase = "ready" /\ session' = session /\ quotaExceeded
              /\ (presets' # presets \/ savedPrompts' # savedPrompts)) =>
            /\ phase' = "ready"
            /\ storage' = storage
       /\ (MutationStep /\ ~quotaExceeded) => InSync']_vars


----------------------------------------------------------------------------
(* The library view *)

Categs(list) == [k \in 1..Len(list) |-> list[k].category]

Times(list) == [k \in 1..Len(list) |-> GetTime(list[k].createdAt)]

Listed(rec) == \E k \in 1..Len(LibraryView) : LibraryView[k] = rec

\* C15: the library view holds exactly the saved records whose category is
\* the filter's value, each once, and every saved record under "All".
C15_ViewIsFiltered ==
    LibraryShown =>
        /\ \A k \in 1..Len(savedPrompts) :
              Listed(savedPrompts[k]) <=>
                  (filterCategory = "All" \/ savedPrompts[k].category = filterCategory)
        /\ \A k \in 1..Len(LibraryView) :
              \E j \in 1..Len(savedPrompts) : savedPrompts[j] = LibraryView[k]
        /\ \A i, j \in 1..Len(LibraryView) :
              LibraryView[i].id = LibraryView[j].id => i = j

\* The library General, Coding, Coding under the filter Coding: the view is
\* the two Coding records.
C15_Witness ==
    /\ LibraryShown
    /\ filterCategory = "Coding"
    /\ Categs(savedPrompts) = <<"General", "Coding", "Coding">>
    /\ Len(LibraryView) = 2
    /\ Categs(LibraryView) = <<"Coding", "Coding">>

\* C16: the view is in order of createdAt descending, whether createdAt is
\* a Date or the ISO string read back from storage: of two listed records
\* with different times the later one comes first.
C16_ViewIsNewestFirst ==
    LibraryShown =>
        \A i, j \in 1..Len(LibraryView) :
            GetTime(LibraryView[i].createdAt) > GetTime(LibraryView[j].createdAt) => i < j

\* Records created at 1 < 2 < 3, the first one read back from storage, are
\* listed 3, 2, 1 under the filter chosen.
C16_Witness ==
    /\ LibraryShown
    /\ filterCategory = "General"
    /\ Categs(savedPrompts) = <<"General", "General", "General">>
    /\ Times(savedPrompts) = <<1, 2, 3>>
    /\ savedPrompts[1].createdAt.t = "string"
    /\ savedPrompts[3].createdAt.t = "Date"
    /\ Times(LibraryView) = <<3, 2, 1>>
    /\ Ids(LibraryView) = <<Uuid(3), Uuid(2), Uuid(1)>>

\* C17: choosing a filter and rendering the view changes neither
\* savedPrompts nor what is stored.
C17_ViewLeavesCollection ==
    [][filterCategory' # filterCategory =>
          /\ savedPrompts' = savedPrompts
          /\ storage' = storage]_vars

\* A filter was chosen over a library whose insertion order is not the order
\* of the view; the library and the stored text are as at the start.
C17_Witness ==
    /\ LibraryShown
    /\ filterCategory = "Coding"
    /\ Times(savedPrompts) = <<1, 3, 2>>
    /\ Categs(savedPrompts) = <<"Coding", "Coding", "Coding">>
    /\ Times(LibraryView) = <<3, 2, 1>>
    /\ storage.enhancedPrompts = StringifyPrompts(savedPrompts)


----------------------------------------------------------------------------
(* Identity of records *)

\* C18: no two presets share an id and no two saved prompts share an id,
\* after any adds, toggles, deletes, preset loads and restarts.
C18_IdsUnique ==
    /\ \A i, j \in 1..Len(presets) : presets[i].id = presets[j].id => i = j
    /\ \A i, j \in 1..Len(savedPrompts) :
          savedPrompts[i].id = savedPrompts[j].id => i = j

\* Seed preset 3 was loaded, two presets were added with its values and seed
\* preset 1 was deleted.
C18_Witness ==
    /\ mounted = "form"
    /\ phase = "ready"
    /\ Ids(presets) = <<"2", "3", Uuid(1), Uuid(2)>>
    /\ presets[3].systemPrompt = presets[2].systemPrompt
    /\ systemPrompt = presets[2].systemPrompt


----------------------------------------------------------------------------
(* What the library holds *)

\* The texts a successful enhancement call delivers.
ModelOutputs ==
    {TryRequest(resp).value : resp \in {r \in StoreResponses : ~TryRequest(r).thrown}}

\* C19: every record of the library holds the model output of a successful
\* enhancement call, never the error text of a failed call, never nothing.
C19_SavedOnlyAfterSuccess ==
    \A i \in 1..Len(savedPrompts) : savedPrompts[i].enhancedPrompt \in ModelOutputs


----------------------------------------------------------------------------
(* Invalid input *)

\* C20: no enhancement request is sent while basePrompt is blank, no direct
\* submission is sent while userPrompt is blank, and no preset with a blank
\* name is added to the presets.
C20_InvalidInputBlocked ==
    /\ \A k \in 1..Len(sent) :
          /\ sent[k].site = "enhance" => basePrompt \notin BlankStrings
          /\ sent[k].site = "form" => userPrompt \notin BlankStrings
    /\ \A i \in 1..Len(presets) : presets[i].name \notin BlankStrings

\* A preset was added and a request sent from the form; the name typed now
\* is blank.
C20_Witness ==
    /\ mounted = "form"
    /\ Len(presets) = Len(DEFAULT_PRESETS) + 1
    /\ newPresetName = " "
    /\ Len(sent) = 1
    /\ sent[1].site = "form"


----------------------------------------------------------------------------
(* Overlapping requests and the loading flag *)

InFlightAt(site) == {i \in 1..Len(inflight) : inflight[i].site = site}

\* What a response to a generation request is to show: the content, or
\* "Error: " and the message of what was thrown.
GenerationOutcome(resp) ==
    IF TryRequest(resp).thrown
    THEN VStr("Error: " \o TryRequest(resp).message)
    ELSE TryRequest(resp).value

\* C21: every response to a generation request puts its own outcome in
\* result, whatever was issued or resolved before it; so once all of several
\* overlapping requests have resolved, result is the outcome of the one
\* that resolved last.
C21_LastResponseWins ==
    [][\A i \in InFlightAt("generate"), resp \in Responses :
          GenerateResponse(i, resp) => result' = GenerationOutcome(resp)]_vars

\* One of two overlapping generation requests has resolved with a content and
\* the other is still awaited.
C21_Witness ==
    /\ mounted = "app"
    /\ InFlightAt("generate") # {}
    /\ result = VStr("out1")


----------------------------------------------------------------------------
(* The kind of a rendered block *)

\* C22: when the trimmed text starts with a fence, exactly the blocks of the
\* parts at odd indices are code and those at even indices are text; when it
\* does not, exactly those at even indices are code and those at odd indices
\* are text.
C22_KindByParity ==
    fmtDone =>
        \A k \in 1..Len(segments) :
            /\ segments[k].kind \in {"code", "text"}
            /\ segments[k].kind = "code" <=>
                  IF StartsWithFence(Trim(text))
                  THEN segments[k].key % 2 = 1
                  ELSE segments[k].key % 2 = 0

\* White space, then a fenced block, then prose: the parts at indices 1 and
\* 2 are rendered.
C22_Witness ==
    /\ fmtDone
    /\ text # <<>> /\ text[1] \in WhiteSpace
    /\ StartsWithFence(Trim(text))
    /\ Kinds(segments) = <<"code", "text">>
    /\ segments[1].key = 1


----------------------------------------------------------------------------
(* Code and prose *)

\* The part at the 0-based index k of the split text lies behind k fence
\* markers: it is between an opening and a closing marker when k is odd and
\* a marker follows it.
Fenced(t, k) == k % 2 = 1 /\ k + 1 < Len(SplitFences(t))

\* C23: every code block holds what lies between an opening and a closing
\* fence marker of the text and every text block what lies outside them; a
\* text without any fence marker is rendered as text blocks only.
C23_CodeIsFenced ==
    fmtDone =>
        /\ \A k \in 1..Len(segments) :
              segments[k].kind = "code" <=> Fenced(text, segments[k].key)
        /\ Len(SplitFences(text)) = 1 =>
              \A k \in 1..Len(segments) : segments[k].kind = "text"


----------------------------------------------------------------------------
(* Requests in flight *)

\* C24: at most one enhancement request is in flight at any time.
C24_OneEnhancementInFlight == Cardinality(InFlightAt("enhance")) <= 1

\* C25: App's loading flag is true whenever an enhancement or a generation
\* request is in flight.
C25_LoadingWhileInFlight ==
    (InFlightAt("enhance") \cup InFlightAt("generate")) # {} => loading


\* C26: with every request settling, the loading flag is false whenever no
\* request is in flight, and a loading flag that is true becomes false.
C26_LoadingReleased ==
    /\ [](inflight = <<>> => ~loading /\ ~formLoading)
    /\ (loading \/ formLoading) ~> ~(loading \/ formLoading)

\* An enhancement request has failed and nothing is in flight.
C26_Witness ==
    /\ mounted = "app"
    /\ inflight = <<>>
    /\ ~loading
    /\ enhancedPrompt = VStr("Error enhancing prompt: Failed to fetch")


----------------------------------------------------------------------------
(* The pair a record holds *)

\* C27: every record's enhancedPrompt is the output of the enhancement
\* request that was sent with the record's originalPrompt as user message.
C27_RecordPairsInputWithOutput ==
    \A k \in 1..Len(savedPrompts) :
        savedPrompts[k].enhancedPrompt = EnhancedFrom(savedPrompts[k].originalPrompt)


----------------------------------------------------------------------------
(* The active preset *)

ActivePresetValid == activePreset = "null" \/ HasId(presets, activePreset)

\* A step of a running PromptForm.
FormStep == mounted = "form" /\ phase = "ready" /\ phase' = "ready"

\* C28: activePreset is null or the id of a preset of the collection: a step
\* that removes the active preset clears it, a step that removes another
\* preset leaves it, a step that adds a preset or loads one sets it to that
\* preset's id.
C28_ActivePresetInCollection ==
    [][/\ ActivePresetValid'
       /\ (FormStep /\ Len(presets') < Len(presets)) =>
             activePreset' = IF HasId(presets', activePreset)
                             THEN activePreset ELSE "null"
       /\ (FormStep /\ Len(presets') > Len(presets)) =>
             activePreset' = presets'[Len(presets')].id
       /\ \A k \in 1..Len(presets) :
             loadPreset(k) => activePreset' = presets[k].id]_vars

\* The preset that was added, and so active, has been deleted.
C28_Witness ==
    /\ mounted = "form"
    /\ phase = "ready"
    /\ session = 1
    /\ nextId = 1
    /\ ~HasId(presets, Uuid(1))
    /\ activePreset = "null"


----------------------------------------------------------------------------
(* The frame of toggleFavorite *)

OtherFields == {"id", "originalPrompt", "enhancedPrompt", "systemPrompt",
                "category", "createdAt"}

\* C29: toggleFavorite(id) negates favorite in the record with that id and
\* changes nothing else: the other fields of that record, the other records,
\* the length and the order stay; without such a record the collection
\* stays; toggling again gives the collection back.
C29_ToggleFrame ==
    [][\A id \in PromptIds :
          toggleFavorite(id) =>
              /\ Len(savedPrompts') = Len(savedPrompts)
              /\ \A k \in 1..Len(savedPrompts) :
                    /\ DOMAIN savedPrompts'[k] = OtherFields \cup {"favorite"}
                    /\ \A fld \in OtherFields :
                          savedPrompts'[k][fld] = savedPrompts[k][fld]
                    /\ savedPrompts'[k].favorite =
                          IF savedPrompts[k].id = id
                          THEN ~savedPrompts[k].favorite
                          ELSE savedPrompts[k].favorite
              /\ ~HasId(savedPrompts, id) => savedPrompts' = savedPrompts
              /\ Toggled(savedPrompts', id) = savedPrompts]_vars

\* Of two records the first has been toggled.
C29_Witness ==
    /\ mounted = "app"
    /\ phase = "ready"
    /\ Len(savedPrompts) = 2
    /\ savedPrompts[1].favorite
    /\ ~savedPrompts[2].favorite


----------------------------------------------------------------------------
(* Loading the presets *)

\* PromptForm has been opened and has not finished loading.
FormLoading == mounted = "form" /\ phase \in {"mounting", "loaded"}

\* C30: while PromptForm loads a stored list of presets, no step changes
\* what is stored under the key, and the step that completes the loading
\* leaves that list as the presets in memory.
C30_LoadingDoesNotWrite ==
    [][(FormLoading /\ session' = session /\ storage.promptPresets.kind = "array") =>
          /\ storage'.promptPresets = storage.promptPresets
          /\ phase' = "ready" => presets' = storage.promptPresets.items]_vars

====
